---- MODULE Spec2Model ----
(***************************************************************************)
(* Model of the two HTTP services of exam_finder.                          *)
(*                                                                         *)
(*   src/student_exam.py  the authenticated exam service: register, login, *)
(*                        /me and /me/exams behind get_current_student     *)
(*   src/main.py          the school service: students, courses,           *)
(*                        enrollments                                      *)
(*                                                                         *)
(* Library calls are modelled by what the libraries the source imports do: *)
(* python-jose (jwt.encode / jwt.decode), passlib's CryptContext with the  *)
(* bcrypt scheme, pydantic's EmailStr, and SQLite behind SQLAlchemy.       *)
(***************************************************************************)
EXTENDS Integers, Sequences, FiniteSets, TLC

VARIABLES
    students,     \* exam service: committed rows of table "students"
    reg,          \* exam service: per worker thread, the register call in flight
    registered,   \* history: the StudentCreate payloads whose register returned 200
    issued,       \* history: the tokens create_access_token has returned
    now,          \* wall clock, in ticks of 1/TicksPerSecond second
    advances,     \* number of clock advances so far (bounds the run)
    resp,         \* the last response sent (or the last pure-function result)
    sStudents,    \* school service: rows of table "students"
    courses,      \* school service: rows of table "courses"
    enrollments,  \* school service: rows of table "enrollments"
    enrolledNow   \* history: <<student_id, course_id>> enrolled since that id was created

vars == <<students, reg, registered, issued, now, advances, resp,
          sStudents, courses, enrollments, enrolledNow>>

examVars   == <<students, reg, registered, issued, now, advances>>
schoolVars == <<sStudents, courses, enrollments, enrolledNow>>

(***************************************************************************)
(* Bounds of the model                                                     *)
(***************************************************************************)
NumWorkers     == 2   \* threads of the server running register at once
MaxAdvances    == 2   \* clock advances in a run
MaxTokens      == 2   \* tokens issued in a run
TicksPerSecond == 2   \* clock resolution: the code truncates to whole seconds
MaxRows        == 2   \* largest row id of a table of the school service

(***************************************************************************)
(* Program constants                                                       *)
(***************************************************************************)
ACCESS_TOKEN_EXPIRE_MINUTES == 60
SecondsPerMinute == 60
SECRET_KEY == "CHANGE_ME_TO_A_LONG_RANDOM_SECRET"
OtherKey   == "another secret"

HTTP_200 == 200
HTTP_400 == 400
HTTP_401 == 401
HTTP_404 == 404
HTTP_500 == 500

(***************************************************************************)
(* Small helpers                                                           *)
(***************************************************************************)
Max(S) == CHOOSE x \in S : \A y \in S : y <= x

\* An optional value is a sequence of length 0 or 1.
None    == << >>
Some(x) == <<x>>

(***************************************************************************)
(* E-mail addresses.  An address is [local, domain]; the domain is a       *)
(* sequence of characters so that case folding is computed, not assumed.   *)
(***************************************************************************)
LowerChar(c) == IF c = "X" THEN "x" ELSE IF c = "Y" THEN "y" ELSE c
LowerStr(s)  == [i \in DOMAIN s |-> LowerChar(s[i])]

Addr(l, d) == [local |-> l, domain |-> d]

\* pydantic's EmailStr: the validated value is email-validator's normalized
\* form, whose domain part is lower-cased; the local part keeps its case.
EmailStr(e) == [local |-> e.local, domain |-> LowerStr(e.domain)]

A_upper == Addr("ana", <<"X">>)   \* ana@X
A_lower == Addr("ana", <<"x">>)   \* ana@x
B_lower == Addr("bo",  <<"y">>)   \* bo@y
C_lower == Addr("cy",  <<"x">>)   \* never registered

Passwords == {"secret123", "wrong"}

\* StudentCreate payloads the clients send to /auth/register
Payloads ==
    { [name |-> "Ana", email |-> A_upper, password |-> "secret123"],
      [name |-> "Bo",  email |-> B_lower, password |-> "wrong"] }

\* form fields the clients send to /auth/login
LoginEmails == {A_upper, A_lower, B_lower, C_lower}

(***************************************************************************)
(* Credential manager: passlib CryptContext(schemes=["bcrypt"])            *)
(***************************************************************************)
Salts == {"salt1", "salt2"}

\* A hash string is a sequence of fields: <<ident, salt, digest>> for a
\* bcrypt hash.  The digest is determined by salt and password; it is kept
\* as the pair it is computed from (bcrypt taken as collision free).
BcryptDigest(salt, password) == <<salt, password>>

get_password_hash(password, salt) ==
    <<"$2b$", salt, BcryptDigest(salt, password)>>

\* CryptContext.identify: the bcrypt handler recognises its ident prefix.
IsBcryptIdent(h) == Len(h) >= 1 /\ h[1] = "$2b$"

\* Outcome of pwd_context.verify: "true", "false", or "raise"
\* (UnknownHashError when no scheme identifies the hash, a ValueError
\* when the bcrypt string is cut short).
PwdContextVerify(plain, h) ==
    IF ~IsBcryptIdent(h) THEN "raise"
    ELSE IF Len(h) # 3 THEN "raise"
    ELSE IF h[3] = BcryptDigest(h[2], plain) THEN "true" ELSE "false"

verify_password(plain, h) == PwdContextVerify(plain, h)

(***************************************************************************)
(* Token service: python-jose jwt.encode / jwt.decode with HS256           *)
(***************************************************************************)
\* int(datetime.timestamp()): whole seconds of a clock reading in ticks
Timestamp(t) == t \div TicksPerSecond

MinutesToTicks(m) == m * SecondsPerMinute * TicksPerSecond

\* HMAC-SHA256 over the serialized payload, taken as collision free: the
\* signature is kept as the (key, message) pair it is computed from.
Sign(payload, key) == [key |-> key, msg |-> payload]

\* jwt.encode: header.payload.signature, three segments
JwtEncode(payload, key) ==
    [segments |-> 3, payload |-> payload, sig |-> Sign(payload, key)]

\* A string that is not a compact JWS at all
GarbageToken ==
    [segments |-> 1,
     payload  |-> [sub |-> None, iat |-> 0, exp |-> 0],
     sig      |-> Sign([sub |-> None, iat |-> 0, exp |-> 0], OtherKey)]

\* The comparison of _validate_exp turned round
JoseExpired_Flipped(exp, nowSec) == exp > nowSec

\* jose.jwt._validate_exp: raises ExpiredSignatureError when exp < now, with
\* now = timegm(utcnow().utctimetuple()), whole seconds
JoseExpired(exp, nowSec) == exp < nowSec

\* jwt.decode called with options={"verify_signature": False}
JwtDecode_NoSignatureCheck(token, key, nowTicks) ==
    IF token.segments # 3
        THEN [ok |-> FALSE, err |-> "Malformed", claims |-> token.payload]
    ELSE IF JoseExpired(token.payload.exp, Timestamp(nowTicks))
        THEN [ok |-> FALSE, err |-> "Expired", claims |-> token.payload]
    ELSE [ok |-> TRUE, err |-> "", claims |-> token.payload]

\* jwt.decode(token, key, algorithms=[ALGORITHM]): the signature is checked
\* first (jws.verify), then the registered claims.
JwtDecode(token, key, nowTicks) ==
    IF token.segments # 3
        THEN [ok |-> FALSE, err |-> "Malformed", claims |-> token.payload]
    ELSE IF token.sig # Sign(token.payload, key)
        THEN [ok |-> FALSE, err |-> "InvalidSignature", claims |-> token.payload]
    ELSE IF JoseExpired(token.payload.exp, Timestamp(nowTicks))
        THEN [ok |-> FALSE, err |-> "Expired", claims |-> token.payload]
    ELSE [ok |-> TRUE, err |-> "", claims |-> token.payload]

\* create_access_token(subject=..., expires_minutes=...) called at nowTicks
create_access_token(subject, expires_minutes, nowTicks) ==
    JwtEncode([sub |-> Some(subject),
               iat |-> Timestamp(nowTicks),
               exp |-> Timestamp(nowTicks + MinutesToTicks(expires_minutes))],
              SECRET_KEY)

(***************************************************************************)
(* Exam service: table "students" and the look-up by e-mail                *)
(***************************************************************************)
\* select(Student).where(Student.email == email): the matching rows
get_student_by_email(db, email) == {s \in db : s.email = email}

\* SQLite INTEGER PRIMARY KEY without AUTOINCREMENT: largest rowid plus one
NextRowId(ids) == IF ids = {} THEN 1 ELSE Max(ids) + 1

\* Column email declared without unique=True
EmailUniqueOk_NoConstraint(db, row) == TRUE

\* UNIQUE constraint of column students.email, checked when the row is
\* flushed at commit
EmailUniqueOk(db, row) == \A s \in db : s.email # row.email

\* response_model=StudentOut: id, name, email (never the hash)
StudentOut(s) == [id |-> s.id, name |-> s.name, email |-> s.email]

\* Every response has the same shape; absent parts are None.
Response(op, status, detail, www) ==
    [op |-> op, status |-> status, detail |-> detail, www |-> www,
     at |-> 0, reqEmail |-> None, reqPassword |-> None, reqToken |-> None,
     reqKey |-> "", reqHash |-> None, reqId |-> 0, reqCourse |-> 0, ttl |-> 0,
     student |-> None, token |-> None, subject |-> None, err |-> "", ids |-> {}]

NoResponse == Response("none", 0, "", "")

\* the HTTPException built at lines 117-121
credentials_exception(op) ==
    Response(op, HTTP_401, "Could not validate credentials", "Bearer")

\* get_current_student: the dependency in front of /me and /me/exams.
\* The result is the response the request ends with when it is rejected,
\* and otherwise a 200 carrying the Student row handed to the handler.
get_current_student(op, token, db, nowTicks) ==
    LET d == JwtDecode(token, SECRET_KEY, nowTicks) IN
    IF ~d.ok THEN credentials_exception(op)
    ELSE IF d.claims.sub = None THEN credentials_exception(op)
    ELSE LET found == get_student_by_email(db, d.claims.sub[1]) IN
         IF found = {} THEN credentials_exception(op)
         ELSE [Response(op, HTTP_200, "", "") EXCEPT
                  !.student = Some(CHOOSE s \in found : TRUE)]

(***************************************************************************)
(* Exam service: the handlers                                              *)
(***************************************************************************)
Workers == 1..NumWorkers

\* POST /auth/register, lines 155-160: the existence check
register_existing(db, p) == get_student_by_email(db, EmailStr(p.email))

register_rejected(p) ==
    [Response("register", HTTP_400, "Email already registered", "")
        EXCEPT !.reqEmail = Some(p.email)]

\* lines 162-166: the Student object built from the validated payload
new_student_of(p, salt) ==
    [payload |-> p,
     row |-> [name |-> p.name, email |-> EmailStr(p.email),
              hashed_password |-> get_password_hash(p.password, salt),
              is_active |-> TRUE]]

\* lines 168-172: db.add, db.commit, db.refresh and the return.  The INSERT
\* fails on the UNIQUE constraint when the e-mail is in the table by then;
\* nothing catches the IntegrityError and the framework answers 500.
register_commit(db, call) ==
    IF EmailUniqueOk(db, call.row)
    THEN LET new_student ==
                 [id |-> NextRowId({s.id : s \in db}),
                  name |-> call.row.name,
                  email |-> call.row.email,
                  hashed_password |-> call.row.hashed_password,
                  is_active |-> call.row.is_active] IN
         [db |-> db \cup {new_student},
          created |-> {[payload |-> call.payload, id |-> new_student.id]},
          resp |-> [Response("register", HTTP_200, "", "")
                       EXCEPT !.reqEmail = Some(call.payload.email),
                              !.student = Some(StudentOut(new_student))]]
    ELSE [db |-> db,
          created |-> {},
          resp |-> [Response("register", HTTP_500, "Internal Server Error", "")
                       EXCEPT !.reqEmail = Some(call.payload.email)]]

\* One register call run from start to end with no other call in between.
Register(p) ==
    /\ IF register_existing(students, p) # {}
       THEN /\ resp' = register_rejected(p)
            /\ UNCHANGED <<students, registered>>
       ELSE \E salt \in Salts :
              LET c == register_commit(students, new_student_of(p, salt)) IN
              /\ students' = c.db
              /\ registered' = registered \cup c.created
              /\ resp' = c.resp
    /\ UNCHANGED <<reg, issued, now, advances, schoolVars>>

\* Register calls served by several threads: the check and the commit of a
\* call are two steps, and steps of other calls can run between them.
RegisterCheck(w, p) ==
    /\ reg[w] = None
    /\ IF register_existing(students, p) # {}
       THEN /\ resp' = register_rejected(p)
            /\ reg' = reg
       ELSE /\ \E salt \in Salts :
                 reg' = [reg EXCEPT ![w] = Some(new_student_of(p, salt))]
            /\ resp' = resp
    /\ UNCHANGED <<students, registered, issued, now, advances, schoolVars>>

RegisterCommit(w) ==
    /\ reg[w] # None
    /\ LET c == register_commit(students, reg[w][1]) IN
       /\ students' = c.db
       /\ registered' = registered \cup c.created
       /\ resp' = c.resp
    /\ reg' = [reg EXCEPT ![w] = None]
    /\ UNCHANGED <<issued, now, advances, schoolVars>>

\* A login that tells an unknown e-mail from a wrong password
login_failure_Leaky(cause) ==
    IF cause = "unknown email"
    THEN [Response("login", HTTP_404, "Email not registered", "")
             EXCEPT !.err = cause]
    ELSE [Response("login", HTTP_401, "Incorrect email or password", "Bearer")
             EXCEPT !.err = cause]

\* the HTTPException of lines 185-189; cause records why it was raised
login_failure(cause) ==
    [Response("login", HTTP_401, "Incorrect email or password", "Bearer")
        EXCEPT !.err = cause]

\* POST /auth/login, lines 180-196, as a function of the form fields, the
\* table and the clock
login(username, password, db, nowTicks) ==
    LET found == get_student_by_email(db, username) IN
    IF found = {} THEN login_failure("unknown email")
    ELSE LET student == CHOOSE s \in found : TRUE
             v == verify_password(password, student.hashed_password) IN
         IF v = "raise"
            THEN Response("login", HTTP_500, "Internal Server Error", "")
         ELSE IF v = "false" THEN login_failure("wrong password")
         ELSE [Response("login", HTTP_200, "", "") EXCEPT
                  !.token = Some(create_access_token(student.email,
                                     ACCESS_TOKEN_EXPIRE_MINUTES, nowTicks))]

Login(username, password) ==
    LET r == login(username, password, students, now) IN
    /\ IF r.token = None THEN TRUE
       ELSE IF r.token[1] \in issued THEN TRUE
       ELSE Cardinality(issued) < MaxTokens
    /\ issued' = IF r.token = None THEN issued ELSE issued \cup {r.token[1]}
    /\ resp' = [r EXCEPT !.reqEmail = Some(username),
                         !.reqPassword = Some(password)]
    /\ UNCHANGED <<students, reg, registered, now, advances, schoolVars>>

\* What a client can put in the Authorization header: a token it was given,
\* that token with the subject replaced or re-signed under another key, a
\* token signed with the process secret that login never issued (without a
\* subject, or for an address with no account), or no JWS at all.
AlteredPayload(t) ==
    { [t EXCEPT !.payload.sub = Some(B_lower)],
      [t EXCEPT !.payload.exp = @ + 1] } \ {t}

Tampered(t) == AlteredPayload(t) \cup {JwtEncode(t.payload, OtherKey)}

Forged(nowTicks) ==
    { JwtEncode([sub |-> None, iat |-> Timestamp(nowTicks),
                 exp |-> Timestamp(nowTicks) + 1], SECRET_KEY),
      JwtEncode([sub |-> Some(C_lower), iat |-> Timestamp(nowTicks),
                 exp |-> Timestamp(nowTicks) + 1], SECRET_KEY),
      GarbageToken }

PresentedTokens ==
    issued \cup UNION {Tampered(t) : t \in issued} \cup Forged(now)

\* GET /me, lines 200-204: the account, serialized as StudentOut
Me(token) ==
    /\ LET r == get_current_student("me", token, students, now) IN
       resp' = [r EXCEPT !.reqToken = Some(token), !.at = now,
                         !.student = IF r.student = None THEN None
                                     ELSE Some(StudentOut(r.student[1]))]
    /\ UNCHANGED <<examVars, schoolVars>>

\* GET /me/exams, lines 207-232: the body reports current_student.id
MyExams(token) ==
    /\ LET r == get_current_student("exams", token, students, now) IN
       resp' = [r EXCEPT !.reqToken = Some(token), !.at = now,
                         !.student = None,
                         !.ids = IF r.student = None THEN {}
                                 ELSE {r.student[1].id}]
    /\ UNCHANGED <<examVars, schoolVars>>

\* The wall clock moves on: by one tick, or by the lifetime of a token.
Deltas == {1, MinutesToTicks(ACCESS_TOKEN_EXPIRE_MINUTES)}

Tick(d) ==
    /\ advances < MaxAdvances
    /\ now' = now + d
    /\ advances' = advances + 1
    /\ UNCHANGED <<students, reg, registered, issued, resp, schoolVars>>

SchoolIdle ==
    /\ sStudents = {} /\ courses = {} /\ enrollments = {} /\ enrolledNow = {}

Init ==
    /\ students = {}
    /\ reg = [w \in Workers |-> None]
    /\ registered = {}
    /\ issued = {}
    /\ now = 0
    /\ advances = 0
    /\ resp = NoResponse
    /\ SchoolIdle

Next ==
    \/ \E p \in Payloads : Register(p)
    \/ \E e \in LoginEmails, p \in Passwords : Login(e, p)
    \/ \E t \in PresentedTokens : Me(t)
    \/ \E t \in PresentedTokens : MyExams(t)
    \/ \E d \in Deltas : Tick(d)

Spec == Init /\ [][Next]_vars

(***************************************************************************)
(* The token service on its own: create_access_token and jwt.decode        *)
(* applied to subjects, lifetimes and keys drawn from small sets.          *)
(***************************************************************************)
EmptySubject == Addr("", << >>)
Subjects == {A_upper, B_lower, EmptySubject}
TTLs     == {-1, 0, 1, ACCESS_TOKEN_EXPIRE_MINUTES}
Keys     == {SECRET_KEY, OtherKey}

\* The token under test is the one in issued.  Clock readings are seconds
\* since the epoch, so a token is not issued where its expiry would fall
\* before the epoch.
TokIssue(s, ttl) ==
    /\ now + MinutesToTicks(ttl) >= 0
    /\ LET t == create_access_token(s, ttl, now) IN
       /\ issued' = {t}
       /\ resp' = [Response("issue", 0, "", "") EXCEPT
                      !.subject = Some(s), !.ttl = ttl, !.at = now,
                      !.token = Some(t)]
    /\ UNCHANGED <<students, reg, registered, now, advances, schoolVars>>

\* lines 124-125: payload = jwt.decode(token, key, ...); payload.get("sub")
TokVerify(t, key) ==
    /\ LET d == JwtDecode(t, key, now) IN
       resp' = [Response("verify", 0, "", "") EXCEPT
                   !.reqToken = Some(t), !.reqKey = key, !.at = now,
                   !.err = d.err,
                   !.subject = IF d.ok THEN d.claims.sub ELSE None]
    /\ UNCHANGED <<examVars, schoolVars>>

NextToken ==
    \/ \E s \in Subjects, ttl \in TTLs : TokIssue(s, ttl)
    \/ \E t \in issued \cup UNION {Tampered(x) : x \in issued} \cup {GarbageToken},
          key \in Keys : TokVerify(t, key)
    \/ \E d \in Deltas : Tick(d)

SpecToken == Init /\ [][NextToken]_vars

(***************************************************************************)
(* The credential manager on its own: verify_password, and login, against  *)
(* a stored hash drawn from well-formed and malformed strings.             *)
(***************************************************************************)
StoredHashes ==
    { << >>,                                   \* the empty string
      <<"not a hash">>,                        \* no scheme identifies it
      <<"$2b$", "salt1">>,                     \* a bcrypt string cut short
      get_password_hash("secret123", "salt1"),
      get_password_hash("wrong", "salt2") }

WellFormedHash(h) == \E pw \in Passwords, salt \in Salts : h = get_password_hash(pw, salt)

AccountWithHash(h) ==
    [id |-> 1, name |-> "Ana", email |-> A_lower,
     hashed_password |-> h, is_active |-> TRUE]

InitCred ==
    /\ \E h \in StoredHashes : students = {AccountWithHash(h)}
    /\ reg = [w \in Workers |-> None]
    /\ registered = {}
    /\ issued = {}
    /\ now = 0
    /\ advances = 0
    /\ resp = NoResponse
    /\ SchoolIdle

CredVerify(p, h) ==
    /\ resp' = [Response("verify_password", 0, "", "") EXCEPT
                   !.reqPassword = Some(p), !.reqHash = Some(h),
                   !.err = verify_password(p, h)]
    /\ UNCHANGED <<examVars, schoolVars>>

NextCred ==
    \/ \E p \in Passwords, h \in StoredHashes : CredVerify(p, h)
    \/ \E e \in LoginEmails, p \in Passwords : Login(e, p)
    \/ \E d \in Deltas : Tick(d)

SpecCred == InitCred /\ [][NextCred]_vars

(***************************************************************************)
(* School service (src/main.py).  Every handler opens its own Session and  *)
(* commits before it returns.  SQLite does not enforce FOREIGN KEY clauses *)
(* unless "PRAGMA foreign_keys=ON" is issued per connection, and the       *)
(* engine of line 16 never issues it; no relationship() is declared, so    *)
(* the ORM cascades nothing.                                               *)
(***************************************************************************)
Names    == {"Ana", "Bo"}
Titles   == {"Math 101"}
IdInputs == 1..(MaxRows + 1)

\* session.get(Model, id): the row with that primary key, if any
SessionGet(table, id) == {r \in table : r.id = id}

\* UniqueConstraint("student_id", "course_id"), line 43
EnrollUniqueOk(rows, sid, cid) ==
    \A e \in rows : ~(e.student_id = sid /\ e.course_id = cid)

\* What session.delete(student); session.commit() leaves in "enrollments"
EnrollmentsAfterDelete(rows, sid) == rows

\* the join of lines 178-183
CoursesOf(sid) ==
    {c \in courses : \E e \in enrollments :
                        e.course_id = c.id /\ e.student_id = sid}

not_found(op, what) == Response(op, HTTP_404, what, "")

\* POST /students, lines 91-97
create_student(name) ==
    /\ NextRowId({r.id : r \in sStudents}) <= MaxRows
    /\ LET id == NextRowId({r.id : r \in sStudents}) IN
       /\ sStudents' = sStudents \cup {[id |-> id, name |-> name]}
       /\ enrolledNow' = {pr \in enrolledNow : pr[1] # id}
       /\ resp' = [Response("create_student", HTTP_200, "", "") EXCEPT
                      !.reqId = id]
    /\ UNCHANGED <<examVars, courses, enrollments>>

\* POST /courses, lines 130-136
create_course(title) ==
    /\ NextRowId({r.id : r \in courses}) <= MaxRows
    /\ LET id == NextRowId({r.id : r \in courses}) IN
       /\ courses' = courses \cup {[id |-> id, title |-> title]}
       /\ resp' = [Response("create_course", HTTP_200, "", "") EXCEPT
                      !.reqCourse = id]
    /\ UNCHANGED <<examVars, sStudents, enrollments, enrolledNow>>

\* DELETE /students/{student_id}, lines 117-124
delete_student(student_id) ==
    /\ IF SessionGet(sStudents, student_id) = {}
       THEN /\ resp' = [not_found("delete_student", "Student not found")
                           EXCEPT !.reqId = student_id]
            /\ UNCHANGED <<sStudents, enrollments>>
       ELSE /\ sStudents' = sStudents \ SessionGet(sStudents, student_id)
            /\ enrollments' = EnrollmentsAfterDelete(enrollments, student_id)
            /\ resp' = [Response("delete_student", HTTP_200, "", "") EXCEPT
                           !.reqId = student_id]
    /\ UNCHANGED <<examVars, courses, enrolledNow>>

\* POST /enroll, lines 148-168
enroll(student_id, course_id) ==
    /\ IF SessionGet(sStudents, student_id) = {}
       THEN /\ resp' = [not_found("enroll", "Student not found") EXCEPT
                           !.reqId = student_id, !.reqCourse = course_id]
            /\ UNCHANGED <<enrollments, enrolledNow>>
       ELSE IF SessionGet(courses, course_id) = {}
       THEN /\ resp' = [not_found("enroll", "Course not found") EXCEPT
                           !.reqId = student_id, !.reqCourse = course_id]
            /\ UNCHANGED <<enrollments, enrolledNow>>
       ELSE IF ~EnrollUniqueOk(enrollments, student_id, course_id)
       THEN /\ resp' = [Response("enroll", HTTP_400, "Already enrolled (or invalid)", "")
                           EXCEPT !.reqId = student_id, !.reqCourse = course_id]
            /\ UNCHANGED <<enrollments, enrolledNow>>
       ELSE /\ enrollments' = enrollments \cup
                   {[id |-> NextRowId({e.id : e \in enrollments}),
                     student_id |-> student_id, course_id |-> course_id]}
            /\ enrolledNow' = enrolledNow \cup {<<student_id, course_id>>}
            /\ resp' = [Response("enroll", HTTP_200, "", "") EXCEPT
                           !.reqId = student_id, !.reqCourse = course_id]
    /\ UNCHANGED <<examVars, sStudents, courses>>

\* GET /students/{student_id}/courses, lines 172-189
get_student_courses(student_id) ==
    /\ IF SessionGet(sStudents, student_id) = {}
       THEN resp' = [not_found("get_student_courses", "Student not found")
                        EXCEPT !.reqId = student_id]
       ELSE resp' = [Response("get_student_courses", HTTP_200, "", "") EXCEPT
                        !.reqId = student_id,
                        !.ids = {c.id : c \in CoursesOf(student_id)}]
    /\ UNCHANGED <<examVars, schoolVars>>

NextSchool ==
    \/ \E n \in Names : create_student(n)
    \/ \E t \in Titles : create_course(t)
    \/ \E i \in IdInputs : delete_student(i)
    \/ \E i \in IdInputs, c \in IdInputs : enroll(i, c)
    \/ \E i \in IdInputs : get_student_courses(i)

SpecSchool == Init /\ [][NextSchool]_vars

\* The register calls alone, served concurrently
NextRegister ==
    \/ \E w \in Workers, p \in Payloads : RegisterCheck(w, p)
    \/ \E w \in Workers : RegisterCommit(w)

SpecRegister == Init /\ [][NextRegister]_vars

(***************************************************************************)
(* Properties                                                              *)
(***************************************************************************)
TheGenericLoginFailure(r) ==
    /\ r.status = HTTP_401
    /\ r.detail = "Incorrect email or password"
    /\ r.www = "Bearer"
    /\ r.token = None

TheCredentialsFailure(r) ==
    /\ r.status = HTTP_401
    /\ r.detail = "Could not validate credentials"
    /\ r.www = "Bearer"
    /\ r.student = None
    /\ r.ids = {}

\* expires_at of a token, on the clock's scale
ExpiresAtTicks(t) == t.payload.exp * TicksPerSecond

SignedWithProcessSecret(t) ==
    /\ t.segments = 3
    /\ t.sig.key = SECRET_KEY
    /\ t.sig.msg = t.payload

\* A register call ends in this step without having created an account.
RegisterEndsWithoutAccount ==
    /\ resp'.op = "register"
    /\ resp'.student = None
    /\ \/ resp' # resp
       \/ \E w \in Workers : reg[w] # None /\ reg'[w] = None

\* C1: every register call that does not create an account -- its e-mail
\* being that of a persisted account, also when another call committed the
\* e-mail between this call's check and its commit -- ends with 400 "Email
\* already registered" and leaves the account store unchanged.
C1_DuplicateRegisterIs400 ==
    [][ RegisterEndsWithoutAccount =>
            /\ resp'.status = HTTP_400
            /\ resp'.detail = "Email already registered"
            /\ students' = students ]_vars

\* C2: in every reachable state, under any interleaving of register calls,
\* no two persisted accounts have the same e-mail and every persisted
\* account has a non-empty password hash.
C2_UniqueEmailNonEmptyHash ==
    /\ \A s1 \in students, s2 \in students : s1.email = s2.email => s1 = s2
    /\ \A s \in students : Len(s.hashed_password) > 0

\* two accounts are stored and a call that lost the race has just ended
C2_Witness ==
    /\ Cardinality(students) = 2
    /\ resp.op = "register" /\ resp.status = HTTP_500

\* C3: /me and /me/exams run their body only when the presented token is
\* signed with the process secret, is not expired (now < expires_at),
\* carries a subject, and the subject is the e-mail of a persisted account;
\* the account handed on is the one with that e-mail; every other request
\* ends with 401 "Could not validate credentials" and the Bearer challenge.
C3_ProtectedOnlyWithValidToken ==
    resp.op \in {"me", "exams"} =>
        LET t == resp.reqToken[1]
            valid == /\ SignedWithProcessSecret(t)
                     /\ resp.at < ExpiresAtTicks(t)
                     /\ t.payload.sub # None
                     /\ \E s \in students : s.email = t.payload.sub[1]
        IN /\ resp.status \in {HTTP_200, HTTP_401}
           /\ resp.status = HTTP_200 =>
                 /\ valid
                 /\ \E s \in students :
                       /\ s.email = t.payload.sub[1]
                       /\ resp.op = "me" => resp.student = Some(StudentOut(s))
                       /\ resp.op = "exams" => resp.ids = {s.id}
           /\ ~valid => TheCredentialsFailure(resp)

\* the cause of a failed login, read from the state the request met
UnknownEmail(e) == \A s \in students : s.email # e

WrongPassword(e, p) ==
    \E s \in students : /\ s.email = e
                        /\ \E r \in registered : /\ r.id = s.id
                                                 /\ r.payload.password # p

\* C4: a login that fails because no account has the e-mail and a login
\* that fails because the password is wrong get the same response (401,
\* "Incorrect email or password", the Bearer challenge), no token is
\* issued, and the account store is unchanged.
C4_FailedLoginIndistinguishable ==
    [][ ( /\ resp'.op = "login"
          /\ resp' # resp
          /\ \/ UnknownEmail(resp'.reqEmail[1])
             \/ WrongPassword(resp'.reqEmail[1], resp'.reqPassword[1]) )
        => /\ TheGenericLoginFailure(resp')
           /\ issued' = issued
           /\ students' = students ]_vars

\* a wrong password for an existing account has just been refused
C4_Witness ==
    /\ resp.op = "login"
    /\ WrongPassword(resp.reqEmail[1], resp.reqPassword[1])
    /\ resp.status = HTTP_401

\* C5: for a correctly signed token, verification at time now succeeds if
\* and only if now < expires_at, and fails as Expired whenever
\* now >= expires_at (now = expires_at and lifetimes of 0 and -1 minutes
\* included).
C5_ExpiryBoundary ==
    ( /\ resp.op = "verify"
      /\ resp.reqToken[1] \in issued
      /\ resp.reqKey = SECRET_KEY )
    => LET t == resp.reqToken[1] IN
       /\ (resp.err = "") <=> (resp.at < ExpiresAtTicks(t))
       /\ resp.at >= ExpiresAtTicks(t) => resp.err = "Expired"

\* C6: once register(name, email, password) has succeeded, a login with that
\* e-mail and password succeeds with a bearer token whose subject is the
\* account's e-mail and whose expiry is issued-at plus 60 minutes; presenting
\* the token to /me before its expiry returns that account's id, name and
\* e-mail.
C6_RegisteredCanLogin ==
    /\ ( /\ resp.op = "login"
         /\ \E r \in registered : /\ r.payload.email = resp.reqEmail[1]
                                  /\ r.payload.password = resp.reqPassword[1] )
       => /\ resp.status = HTTP_200
          /\ resp.token # None
          /\ \E s \in students : resp.token[1].payload.sub = Some(s.email)
          /\ resp.token[1].payload.exp = resp.token[1].payload.iat
                + ACCESS_TOKEN_EXPIRE_MINUTES * SecondsPerMinute
    /\ ( /\ resp.op = "me"
         /\ resp.reqToken[1] \in issued
         /\ resp.at < ExpiresAtTicks(resp.reqToken[1]) )
       => /\ resp.status = HTTP_200
          /\ \E s \in students : /\ Some(s.email) = resp.reqToken[1].payload.sub
                                 /\ resp.student = Some(StudentOut(s))

\* C7: there is no revocation.  A token issued by login is accepted by every
\* protected request made while now < expires_at, whatever ran in between
\* (logins of the same or another account, registrations, failed logins);
\* the tokens of several logins of one account are valid together.
C7_NoRevocation ==
    /\ \A t \in issued :
          now < ExpiresAtTicks(t) =>
             /\ get_current_student("me", t, students, now).status = HTTP_200
             /\ get_current_student("exams", t, students, now).status = HTTP_200
    /\ ( /\ resp.op \in {"me", "exams"}
         /\ resp.reqToken[1] \in issued
         /\ resp.at < ExpiresAtTicks(resp.reqToken[1]) )
       => resp.status = HTTP_200

\* two tokens of one account are out, a later one was issued after the one
\* just presented, and the earlier one has just been accepted
C7_Witness ==
    /\ resp.op = "me" /\ resp.status = HTTP_200
    /\ resp.reqToken[1] \in issued
    /\ \E t2 \in issued : /\ t2.payload.sub = resp.reqToken[1].payload.sub
                          /\ t2.payload.iat > resp.reqToken[1].payload.iat
                          /\ Timestamp(resp.at) >= t2.payload.iat
    /\ Cardinality(students) = 2

\* C8: verify_password never raises on a malformed stored hash: it returns
\* false for a mismatch and for a hash string that is not well formed, so a
\* login against an account with a malformed hash ends in the same 401
\* "Incorrect email or password" as a wrong password.
C8_VerifyNeverRaises ==
    /\ resp.op = "verify_password" =>
          /\ resp.err \in {"true", "false"}
          /\ ~WellFormedHash(resp.reqHash[1]) => resp.err = "false"
    /\ ( /\ resp.op = "login"
         /\ \E s \in students : /\ s.email = resp.reqEmail[1]
                                /\ ~WellFormedHash(s.hashed_password) )
       => TheGenericLoginFailure(resp)

\* C9: create_access_token followed by a verification in the same instant
\* under the same secret returns the subject unchanged, for every subject
\* and every positive lifetime; under a different secret, or with the
\* payload or the signature altered, verification fails as InvalidSignature
\* and returns no subject.
C9_IssueVerifyRoundTrip ==
    /\ resp.op = "issue" =>
          /\ resp.token[1].payload.sub = resp.subject
          /\ resp.token[1].payload.iat = Timestamp(resp.at)
    /\ resp.op = "verify" =>
          LET t == resp.reqToken[1] IN
          /\ ( /\ t \in issued
               /\ resp.reqKey = SECRET_KEY
               /\ Timestamp(resp.at) = t.payload.iat
               /\ t.payload.exp > t.payload.iat )
             => /\ resp.err = ""
                /\ resp.subject = t.payload.sub
          /\ ( \/ t \in issued /\ resp.reqKey # SECRET_KEY
               \/ \E x \in issued : t \in AlteredPayload(x)
               \/ \E x \in issued : t \in Tampered(x) /\ resp.reqKey = SECRET_KEY )
             => /\ resp.err = "InvalidSignature"
                /\ resp.subject = None

\* the empty subject has just made the round trip
C9_Witness ==
    /\ resp.op = "verify"
    /\ resp.reqToken[1] \in issued
    /\ resp.reqKey = SECRET_KEY
    /\ Timestamp(resp.at) = resp.reqToken[1].payload.iat
    /\ resp.reqToken[1].payload.exp > resp.reqToken[1].payload.iat
    /\ resp.subject = Some(EmptySubject)

\* C10: in the school service every stored enrollment references a student
\* and a course that exist, no (student_id, course_id) pair is stored twice,
\* and a student never shows courses that student was not enrolled in.
C10_EnrollmentsConsistent ==
    /\ \A e \in enrollments :
          /\ SessionGet(sStudents, e.student_id) # {}
          /\ SessionGet(courses, e.course_id) # {}
    /\ \A e1 \in enrollments, e2 \in enrollments :
          (e1.student_id = e2.student_id /\ e1.course_id = e2.course_id)
             => e1 = e2
    /\ \A s \in sStudents :
          {c.id : c \in CoursesOf(s.id)} \subseteq
             {pr[2] : pr \in {q \in enrolledNow : q[1] = s.id}}

====
